---- MODULE Spec2Model ----
(***************************************************************************)
(* SPSAEstimatorGradient                                                   *)
(* (qiskit_machine_learning/gradients/spsa/spsa_estimator_gradient.py).    *)
(*                                                                         *)
(* State: gradient instances (epsilon, batch size, random stream,          *)
(* estimator, pass manager) and, per instance, the record of its latest    *)
(* call of _run: the perturbations drawn, the flat job lists, what was     *)
(* submitted to the estimator, the results and the call's outcome.         *)
(*                                                                         *)
(* numpy's floating-point arithmetic is modelled by exact rational         *)
(* arithmetic on integers: parameter values, epsilon and expectation       *)
(* values are integers, gradient coordinates are reduced fractions         *)
(* <<numerator, denominator>>.  The estimator, the pass manager and the     *)
(* circuit library are outside the file: the estimator returns one value   *)
(* per request or raises at run() or at result(), the pass manager puts a  *)
(* layout on every circuit.  Runtime options are passed through and play   *)
(* no part in the gradients; they are left out.                            *)
(***************************************************************************)
EXTENDS Integers, Sequences, FiniteSets, TLC

VARIABLES inst, last

vars == <<inst, last>>

(* ------------------------------ bounds -------------------------------- *)

MaxBatch == 2   \* largest batch_size given to the constructor
MaxTasks == 2   \* most tasks (circuits) in one call of _run
MaxDim == 2     \* most parameters of a circuit
MaxCalls == 2   \* calls of _run made on one instance

(* ------------------------------ inputs -------------------------------- *)

Instances == {1, 2}

None == -1  \* Python's None for the seed argument

ParamNames == <<"a", "b", "c", "d">>

Dims == 1..MaxDim

BatchSizes == 1..MaxBatch

Epsilons == {-1, 0, 1, 2}

Seeds == {None, 0, 1}

Entropy == {2, 3}  \* what the operating system may supply when seed is None

EstimatorTypes == {"BaseEstimatorV1", "BaseEstimatorV2", "Sampler"}

Faults == {"none", "run", "result"}  \* the step at which the estimator raises

Vectors(d, S) == [1..d -> S]

Circuit(d, kind) ==
  [parameters |-> SubSeq(ParamNames, 1, d), kind |-> kind, layout |-> "none"]

Observable(c) == [coeffs |-> c, layout |-> "none"]

RECURSIVE Perms(_)
\* The sequences without repetition over the elements of S, of every length.
Perms(S) ==
  {<<>>} \cup UNION {{<<x>> \o p : p \in Perms(S \ {x})} : x \in S}

Range(s) == {s[j] : j \in 1..Len(s)}

\* Every task: a circuit, an observable, a value per circuit parameter and
\* an ordered subset of the circuit's parameters.
Tasks ==
  UNION {
    {[circuit |-> Circuit(d, kind), observable |-> Observable(c),
      parameter_values |-> x, parameters |-> p] :
        kind \in {"lin", "quad"}, c \in Vectors(d, {-1, 1, 2}),
        x \in {[j \in 1..d |-> 0], [j \in 1..d |-> j]},
        p \in Perms(Range(SubSeq(ParamNames, 1, d)))} : d \in Dims}

\* The task that asks for every parameter of a circuit, in declared order,
\* at the values 1, 2, ..., with the observable's coefficients 1, 2, ... for a
\* linear circuit and 1, 1, ... for a quadratic one.
PlainTask(d, kind) ==
  [circuit |-> Circuit(d, kind),
   observable |-> Observable([j \in 1..d |-> IF kind = "lin" THEN j ELSE 1]),
   parameter_values |-> [j \in 1..d |-> j],
   parameters |-> SubSeq(ParamNames, 1, d)]

PlainTasks == {PlainTask(d, kind) : d \in Dims, kind \in {"lin", "quad"}}

RECURSIVE SeqsUpTo(_, _)
SeqsUpTo(S, n) ==
  IF n = 0 THEN {<<>>}
  ELSE LET shorter == SeqsUpTo(S, n - 1)
       IN shorter \cup {Append(s, x) : s \in {r \in shorter : Len(r) = n - 1}, x \in S}

TaskLists == SeqsUpTo(PlainTasks, MaxTasks)

\* One linear task per circuit size, by size.
TaskPool == [d \in Dims |-> PlainTask(d, "lin")]

\* The runs of at most MaxTasks consecutive tasks of the pool.
TaskRuns ==
  {SubSeq(TaskPool, r[1], r[2]) :
     r \in {q \in Dims \X Dims : q[1] <= q[2] /\ q[2] - q[1] < MaxTasks}}

SingleTaskLists == {<<t>> : t \in Tasks}

(* --------------------- arithmetic (numpy arrays) ---------------------- *)

Abs(n) == IF n < 0 THEN -n ELSE n

RECURSIVE Gcd(_, _)
Gcd(a, b) == IF b = 0 THEN a ELSE Gcd(b, a % b)

\* The fraction n/d (d # 0) in lowest terms with a positive denominator.
Rat(n, d) ==
  LET s == IF d < 0 THEN -1 ELSE 1
      g == Gcd(Abs(n), Abs(d))
  IN <<(s * n) \div g, (s * d) \div g>>

RatAdd(p, q) == Rat(p[1] * q[2] + q[1] * p[2], p[2] * q[2])

RatDiv(p, n) == Rat(p[1], p[2] * n)

RECURSIVE RatSum(_)
RatSum(s) == IF s = <<>> THEN <<0, 1>> ELSE RatAdd(Head(s), RatSum(Tail(s)))

RECURSIVE Sum(_)
Sum(s) == IF s = <<>> THEN 0 ELSE Head(s) + Sum(Tail(s))

\* parameter_values_ + sign * epsilon * offset_, coordinate-wise
Shift(values, sign, epsilon, offset) ==
  [j \in 1..Len(values) |-> values[j] + sign * epsilon * offset[j]]

(* --------------------------- random stream ---------------------------- *)

\* The bit streams of the generator, one per seed or entropy value.
StreamBits ==
  << <<0, 0, 1, 0, 1, 1, 0, 1, 0, 0, 0, 1, 1, 1, 0, 1>>,
     <<1, 0, 0, 1, 1, 0, 1, 0, 1, 1, 0, 0, 0, 1, 0, 1>>,
     <<0, 1, 1, 1, 0, 0, 1, 0, 0, 1, 0, 1, 1, 0, 1, 0>>,
     <<1, 1, 0, 0, 0, 1, 0, 1, 1, 0, 1, 0, 0, 1, 1, 1>> >>

Bit(key, pos) == StreamBits[key + 1][(pos % Len(StreamBits[key + 1])) + 1]

\* np.random.default_rng(seed): seeded by the argument, or by fresh entropy
\* of the operating system when the argument is None.
default_rng_unseeded(seed, entropy) == [key |-> entropy, from_os |-> TRUE, pos |-> 0]

default_rng(seed, entropy) ==
  IF seed = None
    THEN [key |-> entropy, from_os |-> TRUE, pos |-> 0]
    ELSE [key |-> seed, from_os |-> FALSE, pos |-> 0]

integers_peek(rng, size) ==
  [value |-> [j \in 1..size |-> Bit(rng.key, rng.pos + j - 1)], rng |-> rng]

\* rng.integers(0, 2, size): the next `size` bits of the stream.
integers(rng, size) ==
  [value |-> [j \in 1..size |-> Bit(rng.key, rng.pos + j - 1)],
   rng |-> [rng EXCEPT !.pos = @ + size]]

\* (-1) ** bits
Signs(bits) == [j \in 1..Len(bits) |-> IF bits[j] = 0 THEN 1 ELSE -1]

RECURSIVE DrawOffsets(_, _, _)
\* [(-1) ** rng.integers(0, 2, d) for _ in range(b)], with the stream after it
DrawOffsets(rng, d, b) ==
  IF b <= 0 THEN [offset |-> <<>>, rng |-> rng]
  ELSE LET first == integers(rng, d)
           rest == DrawOffsets(first.rng, d, b - 1)
       IN [offset |-> <<Signs(first.value)>> \o rest.offset, rng |-> rest.rng]

(* ----------------------------- estimator ------------------------------ *)

\* The expectation value the estimator computes for one request: a linear or
\* a quadratic function of the parameter values, weighted by the observable.
Evaluate(circuit, observable, x) ==
  Sum([j \in 1..Len(x) |->
         observable.coeffs[j] * (IF circuit.kind = "lin" THEN x[j] ELSE x[j] * x[j])])

\* pass_manager.run(circuits) and op.apply_layout(circuit.layout)
Transpile(circuit) == [circuit EXCEPT !.layout = "physical"]

ApplyLayout(observable, layout) == [observable EXCEPT !.layout = layout]

isinstance(estimator, cls) == estimator.type = cls

(* ------------------------------ __init__ ------------------------------ *)

EpsilonInvalid_strict(epsilon) == epsilon < 0

\* `if epsilon <= 0: raise ValueError`
EpsilonInvalid(epsilon) == epsilon <= 0

ConstructionError == "ValueError"

NoArgs == [epsilon |-> 0, batch_size |-> 0, seed |-> None]

\* An instance: its construction status, the arguments it was constructed
\* with, and the fields __init__ sets.
NoInstance ==
  [status |-> "none", args |-> NoArgs, epsilon |-> 0, batch_size |-> 0,
   seed |-> [key |-> 0, from_os |-> FALSE, pos |-> 0],
   estimator |-> [type |-> "none"], pass_manager |-> FALSE]

\* BaseEstimatorGradient.__init__: keeps the estimator and the pass manager.
BaseInit(self, estimator, pass_manager) ==
  [self EXCEPT !.estimator = estimator, !.pass_manager = pass_manager,
               !.status = "ok"]

NoCall ==
  [seq |-> 0, tasks |-> <<>>, pos0 |-> 0, offsets |-> <<>>,
   job_circuits |-> <<>>, job_observables |-> <<>>, job_param_values |-> <<>>,
   contacted |-> FALSE, submitted |-> <<>>, raised_at |-> "none",
   results |-> <<>>, gradient |-> <<>>,
   reissue |-> FALSE, same_offsets |-> FALSE,
   outcome |-> [kind |-> "none", error |-> "none", cause |-> "none",
                names |-> "none", gradients |-> <<>>, metadata |-> <<>>]]

\* SPSAEstimatorGradient(estimator, epsilon, batch_size, seed, pass_manager):
\* the object after __init__, or the error it raises.
NewInstance(estimator, epsilon, batch_size, seed, pass_manager, entropy) ==
  LET args == [epsilon |-> epsilon, batch_size |-> batch_size, seed |-> seed]
  IN IF EpsilonInvalid(epsilon)
       THEN [NoInstance EXCEPT !.status = ConstructionError, !.args = args]
       ELSE BaseInit([NoInstance EXCEPT !.args = args,
                                        !.epsilon = epsilon,
                                        !.batch_size = batch_size,
                                        !.seed = default_rng(seed, entropy)],
                     estimator, pass_manager)

Construct(i, estimator, epsilon, batch_size, seed, pass_manager, entropy) ==
  /\ inst[i].status = "none"
  /\ inst' = [inst EXCEPT ![i] =
                NewInstance(estimator, epsilon, batch_size, seed, pass_manager, entropy)]
  /\ UNCHANGED last

(* ------------------- _run: building the job lists --------------------- *)

Repeat(x, n) == [k \in 1..n |-> x]

\* seq.index(p): the first position of p
IndexOf(seq, p) ==
  CHOOSE j \in 1..Len(seq) : seq[j] = p /\ \A k \in 1..(j - 1) : seq[k] # p

\* [circuit.parameters.data.index(p) for p in parameters_]
Indices(circuit, parameters) ==
  [m \in 1..Len(parameters) |-> IndexOf(circuit.parameters, parameters[m])]

JoinPlusMinus_swapped(plus, minus) == minus \o plus

\* plus + minus
JoinPlusMinus(plus, minus) == plus \o minus

EmptyJob(rng) ==
  [job_circuits |-> <<>>, job_observables |-> <<>>, job_param_values |-> <<>>,
   metadata |-> <<>>, offsets |-> <<>>, all_n |-> <<>>, seed |-> rng]

\* One pass of the loop over the tasks.
AddTask(self, acc, task) ==
  LET d == Len(task.circuit.parameters)
      drawn == DrawOffsets(acc.seed, d, self.batch_size)
      offset == drawn.offset
      plus == [k \in 1..Len(offset) |->
                 Shift(task.parameter_values, 1, self.epsilon, offset[k])]
      minus == [k \in 1..Len(offset) |->
                  Shift(task.parameter_values, -1, self.epsilon, offset[k])]
  IN [job_circuits |->
        acc.job_circuits \o Repeat(task.circuit, 2 * self.batch_size),
      job_observables |->
        acc.job_observables \o Repeat(task.observable, 2 * self.batch_size),
      job_param_values |-> acc.job_param_values \o JoinPlusMinus(plus, minus),
      metadata |-> Append(acc.metadata, [parameters |-> task.parameters]),
      offsets |-> Append(acc.offsets, offset),
      all_n |-> Append(acc.all_n, 2 * self.batch_size),
      seed |-> drawn.rng]

RECURSIVE BuildJob(_, _, _)
BuildJob(self, tasks, acc) ==
  IF tasks = <<>> THEN acc
  ELSE BuildJob(self, Tail(tasks), AddTask(self, acc, Head(tasks)))

(* ------------------- _run: reducing the results ----------------------- *)

Min(a, b) == IF a < b THEN a ELSE b

Window_first(results, partial_sum_n, n) == SubSeq(results, 1, n)

\* results[partial_sum_n : partial_sum_n + n]
Window(results, partial_sum_n, n) ==
  SubSeq(results, partial_sum_n + 1, partial_sum_n + n)

Diffs_one_sided(result, epsilon) ==
  [k \in 1..(Len(result) \div 2) |->
     Rat(result[k] - result[(Len(result) \div 2) + k], epsilon)]

\* (result[:n] - result[n:]) / (2 * epsilon), with n = len(result) // 2
Diffs(result, epsilon) ==
  [k \in 1..(Len(result) \div 2) |->
     Rat(result[k] - result[(Len(result) \div 2) + k], 2 * epsilon)]

\* [diff / offset for diff, offset in zip(diffs, offsets[i])]
BatchGradients(diffs, offset) ==
  [k \in 1..Min(Len(diffs), Len(offset)) |->
     [j \in 1..Len(offset[k]) |-> RatDiv(diffs[k], offset[k][j])]]

\* np.mean(batch_gradients, axis=0), for at least one row
Mean(batch_gradients) ==
  [j \in 1..Len(batch_gradients[1]) |->
     RatDiv(RatSum([k \in 1..Len(batch_gradients) |-> batch_gradients[k][j]]),
            Len(batch_gradients))]

Select_sorted(gradient, indices) ==
  LET chosen == {indices[m] : m \in 1..Len(indices)}
  IN [m \in 1..Len(indices) |->
        gradient[CHOOSE q \in chosen : Cardinality({r \in chosen : r < q}) = m - 1]]

\* gradient[indices]
Select(gradient, indices) == [m \in 1..Len(indices) |-> gradient[indices[m]]]

\* One pass of the loop over all_n: the full-dimension gradient of task i and
\* its selection.
TaskGradient(self, tasks, built, results, i, partial_sum_n) ==
  LET result == Window(results, partial_sum_n, built.all_n[i])
      diffs == Diffs(result, self.epsilon)
      batch_gradients == BatchGradients(diffs, built.offsets[i])
      gradient == Mean(batch_gradients)
      indices == Indices(tasks[i].circuit, built.metadata[i].parameters)
  IN [gradient |-> gradient, selected |-> Select(gradient, indices)]

Gradients_short(self, tasks, built, results, i, partial_sum_n) ==
  [t \in 1..(Len(built.all_n) - 1) |->
     TaskGradient(self, tasks, built, results, t,
                  Sum([u \in 1..(t - 1) |-> built.all_n[u]]))]

RECURSIVE Gradients(_, _, _, _, _, _)
Gradients(self, tasks, built, results, i, partial_sum_n) ==
  IF i > Len(built.all_n) THEN <<>>
  ELSE <<TaskGradient(self, tasks, built, results, i, partial_sum_n)>>
       \o Gradients(self, tasks, built, results, i + 1, partial_sum_n + built.all_n[i])

(* ------------------------- _run: the outcomes ------------------------- *)

EstimatorError == "EstimatorError"  \* whatever exception the estimator raises

Returned(gradients, metadata) ==
  [kind |-> "returned", error |-> "none", cause |-> "none", names |-> "none",
   gradients |-> gradients, metadata |-> metadata]

Raised(error, cause, names) ==
  [kind |-> "raised", error |-> error, cause |-> cause, names |-> names,
   gradients |-> <<>>, metadata |-> <<>>]

\* estimator.run(...) raises: nothing catches it.
RunFailure == Raised(EstimatorError, "none", "none")

ResultFailure_uncaught == Raised(EstimatorError, "none", "none")

\* except Exception as exc: raise AlgorithmError("Estimator job failed.") from exc
ResultFailure == Raised("AlgorithmError", EstimatorError, "none")

Unsupported_unnamed(estimator) == Raised("AlgorithmError", "none", "none")

\* raise AlgorithmError("The accepted estimators are ...; got {type} instead.")
Unsupported(estimator) == Raised("AlgorithmError", "none", estimator.type)

\* What the estimator is handed, request by request.
Requests(circuits, observables, param_values) ==
  [p \in 1..Min(Len(circuits), Min(Len(observables), Len(param_values))) |->
     [circuit |-> circuits[p], observable |-> observables[p],
      values |-> param_values[p]]]

\* The circuits and observables of the V2 branch, transpiled when the
\* instance has a pass manager.
Pubs(self, built) ==
  IF ~self.pass_manager
    THEN Requests(built.job_circuits, built.job_observables, built.job_param_values)
    ELSE LET circs == [x \in 1..Len(built.job_circuits) |->
                         Transpile(built.job_circuits[x])]
             observables == [x \in 1..Len(built.job_observables) |->
                               ApplyLayout(built.job_observables[x], circs[x].layout)]
         IN Requests(circs, observables, built.job_param_values)

\* job.result(): one expectation value per request, in submission order.
JobResults(submitted) ==
  [p \in 1..Len(submitted) |->
     Evaluate(submitted[p].circuit, submitted[p].observable, submitted[p].values)]

\* The branch of a supported estimator, from the submission on.
Submit(self, tasks, built, submitted, fault) ==
  IF fault = "run"
    THEN [contacted |-> TRUE, submitted |-> submitted, raised_at |-> "run",
          results |-> <<>>, gradient |-> <<>>, outcome |-> RunFailure]
  ELSE IF fault = "result"
    THEN [contacted |-> TRUE, submitted |-> submitted, raised_at |-> "result",
          results |-> <<>>, gradient |-> <<>>, outcome |-> ResultFailure]
  ELSE LET results == JobResults(submitted)
           computed == Gradients(self, tasks, built, results, 1, 0)
       IN [contacted |-> TRUE, submitted |-> submitted, raised_at |-> "none",
           results |-> results,
           gradient |-> [i \in 1..Len(computed) |-> computed[i].gradient],
           outcome |-> Returned([i \in 1..Len(computed) |-> computed[i].selected],
                                built.metadata)]

\* The dispatch on the estimator's type.
Dispatch(self, tasks, built, fault) ==
  IF isinstance(self.estimator, "BaseEstimatorV1")
    THEN Submit(self, tasks, built,
                Requests(built.job_circuits, built.job_observables,
                         built.job_param_values), fault)
  ELSE IF isinstance(self.estimator, "BaseEstimatorV2")
    THEN Submit(self, tasks, built, Pubs(self, built), fault)
  ELSE [contacted |-> FALSE, submitted |-> <<>>, raised_at |-> "none",
        results |-> <<>>, gradient |-> <<>>, outcome |-> Unsupported(self.estimator)]

\* The record of one call of _run on instance `self`, whose previous call is
\* `before`.
Call(self, before, tasks, fault) ==
  LET built == BuildJob(self, tasks, EmptyJob(self.seed))
      done == Dispatch(self, tasks, built, fault)
      reissue == /\ before.seq > 0
                 /\ before.outcome.kind = "raised"
                 /\ before.tasks = tasks
  IN [seq |-> before.seq + 1, tasks |-> tasks, pos0 |-> self.seed.pos,
      offsets |-> built.offsets,
      job_circuits |-> built.job_circuits,
      job_observables |-> built.job_observables,
      job_param_values |-> built.job_param_values,
      contacted |-> done.contacted, submitted |-> done.submitted,
      raised_at |-> done.raised_at, results |-> done.results,
      gradient |-> done.gradient,
      reissue |-> reissue,
      same_offsets |-> reissue /\ built.offsets = before.offsets,
      outcome |-> done.outcome]

\* The random stream after the call: every draw of the loop was made.
SeedAfter(self, tasks) == BuildJob(self, tasks, EmptyJob(self.seed)).seed

Run(i, tasks, fault) ==
  /\ inst[i].status = "ok"
  /\ last[i].seq < MaxCalls
  /\ last' = [last EXCEPT ![i] = Call(inst[i], last[i], tasks, fault)]
  /\ inst' = [inst EXCEPT ![i].seed = SeedAfter(inst[i], tasks)]

\* The same construction of both instances, each with entropy of its own.
ConstructPair(estimator, epsilon, batch_size, seed, pass_manager, e1, e2) ==
  /\ \A i \in Instances : inst[i].status = "none"
  /\ inst' = [i \in Instances |->
                NewInstance(estimator, epsilon, batch_size, seed, pass_manager,
                            IF i = 1 THEN e1 ELSE e2)]
  /\ UNCHANGED last

\* The same call on both instances, the estimator behaving the same.
RunPair(tasks, fault) ==
  /\ \A i \in Instances : inst[i].status = "ok" /\ last[i].seq < MaxCalls
  /\ last' = [i \in Instances |-> Call(inst[i], last[i], tasks, fault)]
  /\ inst' = [i \in Instances |-> [inst[i] EXCEPT !.seed = SeedAfter(inst[i], tasks)]]

(* --------------------------- specifications --------------------------- *)

Init ==
  /\ inst = [i \in Instances |-> NoInstance]
  /\ last = [i \in Instances |-> NoCall]

\* One instance of any configuration and its first call, on several tasks.
Next ==
  \/ \E estimator \in EstimatorTypes, epsilon \in Epsilons, batch_size \in BatchSizes,
        seed \in Seeds, pass_manager \in BOOLEAN, entropy \in Entropy :
       Construct(1, [type |-> estimator], epsilon, batch_size, seed, pass_manager, entropy)
  \/ \E tasks \in TaskLists, fault \in Faults :
       last[1].seq = 0 /\ Run(1, tasks, fault)

Spec == Init /\ [][Next]_vars

\* One instance with a working estimator and its first call, on one task of
\* any shape.
NextOne ==
  \/ \E estimator \in {"BaseEstimatorV1", "BaseEstimatorV2"}, epsilon \in {1, 2},
        batch_size \in BatchSizes, seed \in {0, 1} :
       Construct(1, [type |-> estimator], epsilon, batch_size, seed, FALSE, 2)
  \/ \E tasks \in SingleTaskLists : last[1].seq = 0 /\ Run(1, tasks, "none")

SpecOne == Init /\ [][NextOne]_vars

\* One instance and a sequence of calls.
NextSeq ==
  \/ \E estimator \in EstimatorTypes, batch_size \in BatchSizes,
        seed \in Seeds, entropy \in Entropy :
       Construct(1, [type |-> estimator], 1, batch_size, seed, FALSE, entropy)
  \/ \E tasks \in TaskRuns, fault \in Faults : Run(1, tasks, fault)

SpecSeq == Init /\ [][NextSeq]_vars

\* Two instances constructed alike and called alike.
NextPair ==
  \/ \E estimator \in EstimatorTypes, epsilon \in {1, 2}, batch_size \in BatchSizes,
        seed \in Seeds, e1 \in Entropy, e2 \in Entropy :
       ConstructPair([type |-> estimator], epsilon, batch_size, seed, FALSE, e1, e2)
  \/ \E tasks \in TaskRuns, fault \in Faults : RunPair(tasks, fault)

SpecPair == Init /\ [][NextPair]_vars

(* ------------------------------- claims ------------------------------- *)

Called == {i \in Instances : last[i].seq > 0}

ReturnedCalls == {i \in Called : last[i].outcome.kind = "returned"}

Dim(task) == Len(task.circuit.parameters)

\* A circuit or observable as the caller gave it, whatever layout a pass
\* manager put on it.
Logical(x) == [x EXCEPT !.layout = "none"]

\* C1: the flat request list of a call on n tasks with batch size b has 2*b*n
\* entries; task t's entries are at positions 2*b*(t-1)+1 .. 2*b*t, first
\* values + epsilon*offset_k for k = 1..b, then values - epsilon*offset_k for
\* k = 1..b, each with task t's circuit and observable; and that list, entry by
\* entry, is what the estimator is handed.
Theorem_C1 ==
  \A i \in Called :
    LET c == last[i]
        b == inst[i].batch_size
        eps == inst[i].epsilon
        n == Len(c.tasks)
    IN /\ Len(c.job_circuits) = 2 * b * n
       /\ Len(c.job_observables) = 2 * b * n
       /\ Len(c.job_param_values) = 2 * b * n
       /\ Len(c.offsets) = n
       /\ \A t \in 1..n :
            /\ Len(c.offsets[t]) = b
            /\ \A k \in 1..b :
                 LET task == c.tasks[t]
                     off == c.offsets[t][k]
                     p == 2 * b * (t - 1) + k
                     m == 2 * b * (t - 1) + b + k
                 IN /\ off \in [1..Dim(task) -> {-1, 1}]
                    /\ c.job_param_values[p] =
                         [j \in 1..Dim(task) |-> task.parameter_values[j] + eps * off[j]]
                    /\ c.job_param_values[m] =
                         [j \in 1..Dim(task) |-> task.parameter_values[j] - eps * off[j]]
                    /\ \A q \in {p, m} :
                         /\ c.job_circuits[q] = task.circuit
                         /\ c.job_observables[q] = task.observable
       /\ c.contacted =>
            /\ Len(c.submitted) = 2 * b * n
            /\ \A q \in 1..(2 * b * n) :
                 /\ c.submitted[q].values = c.job_param_values[q]
                 /\ Logical(c.submitted[q].circuit) = c.job_circuits[q]
                 /\ Logical(c.submitted[q].observable) = c.job_observables[q]

\* A call on two different tasks with a batch of two that reached the
\* estimator.
Witness_C1 ==
  \E i \in Called :
    /\ last[i].contacted
    /\ inst[i].batch_size >= 2
    /\ Len(last[i].tasks) >= 2
    /\ last[i].tasks[1] # last[i].tasks[2]

\* C2: in a call that returns, task t's full-dimension gradient comes from the
\* results at positions 2*b*(t-1)+1 .. 2*b*t alone: coordinate j is the mean
\* over k = 1..b of ((plus_k - minus_k) / (2*epsilon)) / offset_k[j], plus the
\* first b and minus the last b results of the window, offset_k the k-th
\* vector drawn for task t.
Theorem_C2 ==
  \A i \in ReturnedCalls :
    LET c == last[i]
        b == inst[i].batch_size
        eps == inst[i].epsilon
    IN /\ Len(c.gradient) = Len(c.tasks)
       /\ Len(c.results) = 2 * b * Len(c.tasks)
       /\ \A t \in 1..Len(c.tasks) :
            /\ Len(c.gradient[t]) = Dim(c.tasks[t])
            /\ \A j \in 1..Dim(c.tasks[t]) :
                 LET g == c.gradient[t][j]
                     base == 2 * b * (t - 1)
                 IN /\ g[2] > 0
                    \* offset entries are 1 or -1: dividing by one is
                    \* multiplying by it
                    /\ g[1] * (2 * eps * b) =
                         g[2] * Sum([k \in 1..b |->
                                       (c.results[base + k] - c.results[base + b + k])
                                         * c.offsets[t][k][j]])

\* A returned call on two tasks, batch of two, whose two windows of results
\* differ.
Witness_C2 ==
  \E i \in ReturnedCalls :
    /\ inst[i].batch_size >= 2
    /\ Len(last[i].tasks) >= 2
    /\ SubSeq(last[i].results, 1, 2 * inst[i].batch_size)
         # SubSeq(last[i].results, 2 * inst[i].batch_size + 1, 4 * inst[i].batch_size)
    /\ last[i].gradient[1] # last[i].gradient[2]

LinearCalls ==
  {i \in ReturnedCalls :
     /\ inst[i].batch_size = 1
     /\ Len(last[i].tasks) = 1
     /\ last[i].tasks[1].circuit.kind = "lin"}

\* C3 as stated: with batch_size = 1 and the estimator computing c . x, the
\* gradient returned for all the parameters is c.
Original_C3 ==
  \A i \in LinearCalls :
    LET task == last[i].tasks[1]
    IN task.parameters = task.circuit.parameters =>
         last[i].outcome.gradients[1] =
           [j \in 1..Dim(task) |-> <<task.observable.coeffs[j], 1>>]

\* C3 amended: with batch_size = 1 and the estimator computing c . x,
\* coordinate j of the gradient is (c . offset) / offset[j], which is c[j] plus
\* the sum over the other coordinates m of c[m] * offset[m] * offset[j]; it is
\* c when the circuit has one parameter.
Theorem_C3 ==
  \A i \in LinearCalls :
    LET task == last[i].tasks[1]
        c == task.observable.coeffs
        off == last[i].offsets[1][1]
        d == Dim(task)
    IN /\ \A j \in 1..d :
            last[i].gradient[1][j] =
              <<c[j] + Sum([m \in 1..d |-> IF m = j THEN 0 ELSE c[m] * off[m] * off[j]]), 1>>
       /\ (d = 1 /\ task.parameters = task.circuit.parameters) =>
            last[i].outcome.gradients[1] = <<(<<c[1], 1>>)>>

\* A linear function of two parameters whose estimated gradient is not c.
Witness_C3 ==
  \E i \in LinearCalls :
    LET task == last[i].tasks[1]
    IN /\ Dim(task) = 2
       /\ task.parameters = task.circuit.parameters
       /\ last[i].outcome.gradients[1] #
            [j \in 1..2 |-> <<task.observable.coeffs[j], 1>>]

\* C4: the gradient returned for a task has one entry per requested parameter,
\* in the requested order: entry m is the full-dimension gradient's coordinate
\* at the position the m-th requested parameter has in the circuit.
Theorem_C4 ==
  \A i \in ReturnedCalls :
    LET c == last[i]
    IN /\ Len(c.outcome.gradients) = Len(c.tasks)
       /\ \A t \in 1..Len(c.tasks) :
            LET task == c.tasks[t]
            IN /\ Len(c.outcome.gradients[t]) = Len(task.parameters)
               /\ \A m \in 1..Len(task.parameters), q \in 1..Dim(task) :
                    task.circuit.parameters[q] = task.parameters[m] =>
                      c.outcome.gradients[t][m] = c.gradient[t][q]

\* The parameters requested against the declared order, the two coordinates
\* of the gradient differing.
Witness_C4 ==
  \E i \in ReturnedCalls :
    /\ Len(last[i].tasks) = 1
    /\ last[i].tasks[1].parameters = <<"b", "a">>
    /\ last[i].gradient[1][1] # last[i].gradient[1][2]
    /\ last[i].outcome.gradients[1] = <<last[i].gradient[1][2], last[i].gradient[1][1]>>

Supported(i) == inst[i].estimator.type \in {"BaseEstimatorV1", "BaseEstimatorV2"}

Complete(c) ==
  /\ c.outcome.kind = "returned"
  /\ Len(c.outcome.gradients) = Len(c.tasks)
  /\ Len(c.outcome.metadata) = Len(c.tasks)
  /\ \A t \in 1..Len(c.tasks) :
       /\ Len(c.outcome.gradients[t]) = Len(c.tasks[t].parameters)
       /\ c.outcome.metadata[t].parameters = c.tasks[t].parameters

Theorem_C9 ==
  \A i \in Instances :
    inst[i].status # "none" =>
      /\ inst[i].args.epsilon <= 0 => inst[i].status = ConstructionError
      /\ inst[i].args.epsilon > 0 =>
           /\ inst[i].status = "ok"
           /\ inst[i].epsilon = inst[i].args.epsilon
           /\ inst[i].batch_size = inst[i].args.batch_size

\* Construction with epsilon = 0 failed.
Witness_C9 ==
  \E i \in Instances :
    /\ inst[i].args.epsilon = 0
    /\ inst[i].status = ConstructionError

\* The bits a call starting at stream position pos draws, as offsets, for
\* batch size b: task t's k-th vector follows the vectors of the tasks
\* before it and its own first k-1.
StreamOffsets(key, pos, tasks, b) ==
  [t \in 1..Len(tasks) |->
     [k \in 1..b |->
        [j \in 1..Dim(tasks[t]) |->
           LET at == pos + b * Sum([u \in 1..(t - 1) |-> Dim(tasks[u])])
                       + (k - 1) * Dim(tasks[t]) + (j - 1)
           IN IF Bit(key, at) = 0 THEN 1 ELSE -1]]]

\* C10 as stated (its last part): a call that repeats, right after it, a call
\* that raised uses other perturbations than that call did.
Original_C10 ==
  \A i \in Called : last[i].reissue => ~last[i].same_offsets

\* C10 amended: every call draws b vectors of length d_t for each task t, in
\* task order, from the instance's stream, whatever its outcome: it starts
\* where the stream stood, so after what the previous call drew (failed or
\* not), and leaves the stream b * (d_1 + ... + d_n) further, also when the
\* estimator is of neither protocol and is never called, and when it fails.
\* The vectors so drawn may be those of the previous call.
Theorem_C10 ==
  [][\A i \in Instances :
       last'[i].seq = last[i].seq + 1 =>
         LET b == inst[i].batch_size
             tasks == last'[i].tasks
         IN /\ last'[i].pos0 = inst[i].seed.pos
            /\ inst'[i].seed.pos =
                 inst[i].seed.pos + b * Sum([t \in 1..Len(tasks) |-> Dim(tasks[t])])
            /\ inst'[i].seed.key = inst[i].seed.key
            /\ last'[i].offsets =
                 StreamOffsets(inst[i].seed.key, inst[i].seed.pos, tasks, b)]_vars

\* A call that raised repeated right after: it drew at later positions of the
\* stream, though as many vectors.
Witness_C10 ==
  \E i \in Called :
    /\ last[i].reissue
    /\ last[i].outcome.kind = "raised"
    /\ last[i].pos0 > 0
    /\ inst[i].seed.pos = 2 * last[i].pos0

====
